---- MODULE Spec2Model ----
(***************************************************************************)
(* Model of the container-synthesizing scripts of the repository:          *)
(*   scripts/create-production-tflite.py  (metadata resolver + builder)    *)
(*   scripts/create-simple-tflite.py      (header + one block + padding)   *)
(*                                                                         *)
(* Conventions.                                                            *)
(*  - A JSON value is a record tagged by t: "str", "num" (m * 10^e),       *)
(*    "null", "list" (n elements) or "obj" (o: a record of JSON values).   *)
(*  - The bytearray model_data is a sequence of chunks.  A "raw" chunk     *)
(*    holds concrete bytes.  An "f32" / "u8" chunk stands for n values     *)
(*    drawn from the module-level generator of `random`: the chunk         *)
(*    records the draw (lo, hi), and the generator state the first draw    *)
(*    was made in (seeded, seed, and the calls made since the seeding).    *)
(*    The Mersenne Twister is deterministic, so two such chunks hold the   *)
(*    same bytes when these fields agree.                                  *)
(*  - Every invocation (stack frame) i has its own locals frame[i]; the    *)
(*    generator rng and the file system fs belong to the process.          *)
(***************************************************************************)
EXTENDS Integers, Sequences, FiniteSets, TLC

VARIABLES rng, fs, frame, others, threads

vars == <<rng, fs, frame, others, threads>>

(* ------------------------------ bounds --------------------------------- *)

\* invocations of a builder that one process makes
MaxBuilds == 2
\* draws the rest of the process makes from the shared generator
MaxOtherDraws == 1
\* declared sizes tried on each side of the fixed header+blocks length
SizeSpread == 1

(* ------------------------- program constants --------------------------- *)

Seed == 42
conv_params == 1000
dense_params == 5000
ProductionModelSize == 25000000
SimpleModelSize == 100000
SimpleParams == 1000
DefaultInputSize == 18
DefaultParameters == 1984289

Frames == 1 .. MaxBuilds

Max(a, b) == IF a >= b THEN a ELSE b

(* ----------------------------- JSON values ----------------------------- *)

Str(s) == [t |-> "str", s |-> s]
Num(m, e) == [t |-> "num", m |-> m, e |-> e]
Null == [t |-> "null"]
List(n) == [t |-> "list", n |-> n]
Obj(o) == [t |-> "obj", o |-> o]

\* a local that has not been assigned yet
Unbound == [t |-> "unbound"]

\* the dict of lines 39-43
DefaultMetadata ==
    [model_type |-> Str("PAT-Conv-L"), auc |-> Num(5929, -4),
     parameters |-> Num(DefaultParameters, 0)]

\* v[k] on a parsed JSON value: KeyError / TypeError unless v is an object with key k
HasKey(v, k) == v.t = "obj" /\ k \in DOMAIN v.o

\* f"{v:,}": ValueError on a str, TypeError on None, a list or a dict
CanFormatComma(v) == v.t = "num"

\* len(v): TypeError on a number or None
CanLen(v) == v.t \in {"list", "obj"}

(* -------------------------- struct.pack ------------------------------- *)

\* struct.pack('>I', v): the most significant byte first
MutPackI(v) ==
    <<(v \div 16777216) % 256, (v \div 65536) % 256, (v \div 256) % 256, v % 256>>

\* struct.pack('<I', v): the four bytes of v, least significant first
PackI(v) ==
    <<v % 256, (v \div 256) % 256, (v \div 65536) % 256, (v \div 16777216) % 256>>

\* struct.pack('<I', v) raises struct.error on a negative argument
CanPackI(v) == v >= 0

\* int.from_bytes(b, 'little'), the reading the claims apply to a header field
DecodeI(b) == b[1] + 256 * b[2] + 65536 * b[3] + 16777216 * b[4]

RECURSIVE Pow10(_)
Pow10(k) == IF k = 0 THEN 1 ELSE 10 * Pow10(k - 1)

\* num/den scaled by a power of two into [1, 2): <<num, den, exponent>>
RECURSIVE Normalize(_, _, _)
Normalize(num, den, ex) ==
    IF num >= 2 * den THEN Normalize(num, 2 * den, ex + 1)
    ELSE IF num < den THEN Normalize(2 * num, den, ex - 1)
    ELSE <<num, den, ex>>

\* k more bits of the binary expansion of r/den: <<bits, remainder>>
RECURSIVE FractionBits(_, _, _, _)
FractionBits(r, den, k, acc) ==
    IF k = 0 THEN <<acc, r>>
    ELSE LET bit == IF 2 * r >= den THEN 1 ELSE 0
         IN  FractionBits(2 * r - bit * den, den, k - 1, 2 * acc + bit)

\* the IEEE-754 binary32 encoding of num/den > 0, rounded to nearest even,
\* as <<biased exponent, 23-bit fraction>>
F32Fields(num, den) ==
    LET n == Normalize(num, den, 0)
        fb == FractionBits(n[1] - n[2], n[2], 23, 0)
        up == (2 * fb[2] > n[2]) \/ (2 * fb[2] = n[2] /\ fb[1] % 2 = 1)
        frac == IF up THEN fb[1] + 1 ELSE fb[1]
    IN  IF frac = 8388608 THEN <<n[3] + 128, 0>> ELSE <<n[3] + 127, frac>>

\* the four little-endian bytes of a binary32 from its fields
F32Bytes(bexp, frac) ==
    <<frac % 256, (frac \div 256) % 256,
      ((frac \div 65536) % 128) + (128 * (bexp % 2)), bexp \div 2>>

\* struct.pack('<f', v) accepts a number only ("required argument is not a
\* float"), and raises OverflowError beyond the binary32 range
\* ("float too large to pack with f format"); FLT_MAX < 10^39
CanPackF(v) == v.t = "num" /\ (v.m = 0 \/ v.e <= 38)

PackF(v) ==
    IF v.m = 0 THEN <<0, 0, 0, 0>>
    ELSE LET f == F32Fields(v.m, Pow10(0 - v.e))
         IN  F32Bytes(f[1], f[2])

(* ------------------------------ buffer --------------------------------- *)

Raw(bytes) ==
    [kind |-> "raw", bytes |-> bytes, n |-> Len(bytes), lo |-> "", hi |-> "",
     seeded |-> FALSE, seed |-> 0, at |-> <<>>]

\* n values drawn one after another, the first one in generator state g
Drawn(kind, lo, hi, n, g) ==
    [kind |-> kind, bytes |-> <<>>, n |-> n, lo |-> lo, hi |-> hi,
     seeded |-> g.seeded, seed |-> g.seed, at |-> g.hist]

ChunkLen(c) == IF c.kind = "f32" THEN 4 * c.n ELSE c.n

\* len(model_data)
RECURSIVE BufLen(_)
BufLen(buf) == IF buf = <<>> THEN 0 ELSE ChunkLen(Head(buf)) + BufLen(Tail(buf))

\* the offset at which chunk k of buf starts
OffsetOf(buf, k) == BufLen(SubSeq(buf, 1, k - 1))

\* the bytes of the leading raw chunks
RECURSIVE RawPrefix(_)
RawPrefix(buf) ==
    IF buf = <<>> \/ Head(buf).kind # "raw" THEN <<>>
    ELSE Head(buf).bytes \o RawPrefix(Tail(buf))

\* buf[a:b], for a slice that lies in the leading raw chunks; like the slice
\* of a bytearray it stops where the bytes end
Slice(buf, a, b) ==
    LET p == RawPrefix(buf)
    IN  SubSeq(p, a + 1, IF b <= Len(p) THEN b ELSE Len(p))

\* b'TFL3'
Magic == <<84, 70, 76, 51>>

(* ----------------------------- generator ------------------------------- *)

\* the calls made on the generator since its seeding, run-length encoded
Advance(hist, op, n) ==
    IF n = 0 THEN hist
    ELSE IF hist # <<>> /\ hist[Len(hist)].op = op
         THEN [hist EXCEPT ![Len(hist)].n = @ + n]
         ELSE Append(hist, [op |-> op, n |-> n])

\* random.seed(s)
Seeded(s) == [seeded |-> TRUE, seed |-> s, hist |-> <<>>]

\* the generator as `import random` leaves it: seeded from OS entropy
Unseeded == [seeded |-> FALSE, seed |-> 0, hist |-> <<>>]

\* n calls of random.uniform, each one call of random.random()
AfterUniform(g, n) == [g EXCEPT !.hist = Advance(g.hist, "random", n)]

\* n calls of random.randint(0, 255)
AfterRandint(g, n) == [g EXCEPT !.hist = Advance(g.hist, "randint", n)]

(* ---------------------- the external records ------------------------- *)

\* what json.load can return for pat_conv_l_v0.5929.json
MetadataJson ==
    { Obj([model_type |-> Str("PAT-Conv-L"), auc |-> Num(5929, -4),
           parameters |-> Num(DefaultParameters, 0), date_trained |-> Str("d")]),
      Obj([model_type |-> Str("PAT-Conv-M"), auc |-> Num(75, -2),
           parameters |-> Num(7, 0), date_trained |-> Str("d")]),
      Obj([model_type |-> Str("PAT-Conv-M"), auc |-> Num(75, -2),
           parameters |-> Num(7, 0)]),
      Obj([model_type |-> Str("PAT-Conv-M"), auc |-> Num(75, -2),
           parameters |-> Str("7"), date_trained |-> Str("d")]),
      Obj([model_type |-> Str("PAT-Conv-M"), auc |-> Str("0.75"),
           parameters |-> Num(7, 0), date_trained |-> Str("d")]),
      Obj([model_type |-> Str("PAT-Conv-M"), auc |-> Num(1, 39),
           parameters |-> Num(7, 0), date_trained |-> Str("d")]),
      List(0) }

\* what json.load can return for nhanes_scaler_stats.json
ScalerJson ==
    { Obj([mean |-> List(DefaultInputSize)]), Obj([mean |-> List(5)]),
      Obj([std |-> List(5)]), Obj([mean |-> Num(5, 0)]) }

\* a file to read: absent (open raises), not JSON (json.load raises), or JSON
FilesOf(values) ==
    {[st |-> "absent"], [st |-> "garbage"]} \cup {[st |-> "json", val |-> v] : v \in values}

(* ------------------------------ frames --------------------------------- *)

Scripts == {"production", "simple"}

IdleFrame ==
    [pc |-> "idle", script |-> "none", caller |-> "none",
     metadata |-> Unbound, scaler_stats |-> Unbound, input_size |-> 0,
     model_size |-> 0, model_data |-> <<>>, caught |-> FALSE,
     io |-> <<>>, calls |-> <<>>, err |-> "none"]

\* the declared sizes a build is tried with: the two the scripts fix, zero,
\* and the sizes around the length of the header and the two blocks
FixedLen == 20 + 4 * conv_params + 4 * dense_params

ModelSizes ==
    {0, SimpleModelSize, ProductionModelSize}
        \cup {FixedLen + d : d \in (0 - SizeSpread) .. SizeSpread}

\* the output file before a run, and the states a run can leave it in
InitialFs ==
    { [dir |-> FALSE, out |-> [st |-> "absent", data |-> <<>>]],
      [dir |-> TRUE, out |-> [st |-> "absent", data |-> <<>>]],
      [dir |-> TRUE, out |-> [st |-> "old", data |-> <<>>]] }

\* a fresh interpreter that has imported a script; the scripts start no thread
Init ==
    /\ rng = Unseeded
    /\ fs \in InitialFs
    /\ frame = [i \in Frames |-> IdleFrame]
    /\ others = 0
    /\ threads = FALSE

\* the same interpreter, its caller running the builders in threads
InitThreads ==
    /\ rng = Unseeded
    /\ fs \in InitialFs
    /\ frame = [i \in Frames |-> IdleFrame]
    /\ others = 0
    /\ threads = TRUE

Running(f) == f.pc \notin {"idle", "returned", "done", "raised"}

\* invocation i may take a step: without threads, a call that has started
\* runs to its end before anything else runs
Scheduled(i) == threads \/ \A j \in Frames \ {i} : ~Running(frame[j])

\* an exception leaves the frame: nothing catches it
Raise(f, where) == [f EXCEPT !.pc = "raised", !.err = where]

\* the frame's record of an I/O operation it attempts
Logged(f, what) == [f EXCEPT !.io = Append(@, what)]

\* the frame's record of a call on the generator: n calls of op(lo, hi), or
\* seed(n); len is the length of model_data when the call is made
Called(f, op, lo, hi, n) ==
    [f EXCEPT !.calls = Append(@, [op |-> op, lo |-> lo, hi |-> hi, n |-> n,
                                   len |-> BufLen(f.model_data)])]

Extended(f, chunk) == [f EXCEPT !.model_data = Append(@, chunk)]

(* ------------------- create_production_tflite_model -------------------- *)
(* lines 19-44: the metadata resolver                                      *)

\* a main that creates the output directory before it builds
MutFirstStep(s) == "makedirs"

\* where main enters the function it calls: line 19 (production), line 14 (simple)
FirstStep(s) == IF s = "production" THEN "open_meta" ELSE "size"

\* main, lines 84-88 (production) and 41-44 (simple): call the builder
StartMain(i, s) ==
    /\ frame[i].pc = "idle"
    /\ Scheduled(i)
    /\ frame' = [frame EXCEPT ![i] =
           [@ EXCEPT !.script = s, !.caller = "main", !.pc = FirstStep(s)]]
    /\ UNCHANGED <<rng, fs, others, threads>>

\* a resolver with one try block per record: the scaler record is still read
MutMetadataFailed(f) == [f EXCEPT !.pc = "open_scaler"]

\* an exception at line 20 or 21 leaves the try block for line 36
MetadataFailed(f) == [f EXCEPT !.pc = "except"]

\* lines 20-21: with open(metadata_path) as f: metadata = json.load(f)
OpenMetadata(i) ==
    /\ frame[i].pc = "open_meta"
    /\ Scheduled(i)
    /\ \E file \in FilesOf(MetadataJson) :
         frame' = [frame EXCEPT ![i] =
             IF file.st = "json"
             THEN [Logged(@, "open_metadata") EXCEPT !.metadata = file.val,
                                                     !.pc = "open_scaler"]
             ELSE MetadataFailed(Logged(@, "open_metadata"))]
    /\ UNCHANGED <<rng, fs, others, threads>>

\* lines 23-24: with open(scaler_path) as f: scaler_stats = json.load(f)
OpenScaler(i) ==
    /\ frame[i].pc = "open_scaler"
    /\ Scheduled(i)
    /\ \E file \in FilesOf(ScalerJson) :
         frame' = [frame EXCEPT ![i] =
             IF file.st = "json"
             THEN [Logged(@, "open_scaler") EXCEPT !.scaler_stats = file.val,
                                                   !.pc = "print_info"]
             ELSE [Logged(@, "open_scaler") EXCEPT !.pc = "except"]]
    /\ UNCHANGED <<rng, fs, others, threads>>

\* lines 26-34 run without an exception
InfoPrints(f) ==
    /\ HasKey(f.metadata, "model_type")
    /\ HasKey(f.metadata, "auc")
    /\ HasKey(f.metadata, "parameters")
    /\ CanFormatComma(f.metadata.o.parameters)
    /\ HasKey(f.metadata, "date_trained")
    /\ HasKey(f.scaler_stats, "mean")
    /\ CanLen(f.scaler_stats.o.mean)

\* lines 26-34: print the fields, input_size = len(scaler_stats['mean'])
PrintInfo(i) ==
    /\ frame[i].pc = "print_info"
    /\ Scheduled(i)
    /\ LET f == frame[i]
       IN  frame' = [frame EXCEPT ![i] =
               IF InfoPrints(f)
               THEN [f EXCEPT !.input_size = f.scaler_stats.o.mean.n, !.pc = "size"]
               ELSE [f EXCEPT !.pc = "except"]]
    /\ UNCHANGED <<rng, fs, others, threads>>

\* a handler that keeps what was already read
MutFallbackLocals(f) ==
    [f EXCEPT !.metadata = IF @ = Unbound THEN Obj(DefaultMetadata) ELSE @,
              !.input_size = DefaultInputSize]

\* lines 39-44: the assignments of the except branch
FallbackLocals(f) ==
    [f EXCEPT !.metadata = Obj(DefaultMetadata), !.input_size = DefaultInputSize]

\* lines 36-44: except Exception: print the diagnostic, take the defaults
Fallback(i) ==
    /\ frame[i].pc = "except"
    /\ Scheduled(i)
    /\ frame' = [frame EXCEPT ![i] =
           [FallbackLocals(@) EXCEPT !.caught = TRUE, !.pc = "size"]]
    /\ UNCHANGED <<rng, fs, others, threads>>

(* lines 46-79 (production) and 13-36 (simple): the container builder       *)

\* line 47 / line 14: model_size.  The production script fixes 25000000; the
\* builder's contract takes it as the declared_size argument, so the model
\* draws it from ModelSizes.  Line 50 / 17: model_data = bytearray()
SetSize(i) ==
    /\ frame[i].pc = "size"
    /\ Scheduled(i)
    /\ \E size \in IF frame[i].script = "production" THEN ModelSizes
                   ELSE {SimpleModelSize} :
         frame' = [frame EXCEPT ![i] =
             [@ EXCEPT !.model_size = size, !.model_data = <<>>, !.pc = "magic"]]
    /\ UNCHANGED <<rng, fs, others, threads>>

\* line 53 / 20: model_data.extend(b'TFL3')
AppendMagic(i) ==
    /\ frame[i].pc = "magic"
    /\ Scheduled(i)
    /\ frame' = [frame EXCEPT ![i] = [Extended(@, Raw(Magic)) EXCEPT !.pc = "version"]]
    /\ UNCHANGED <<rng, fs, others, threads>>

\* line 54 / 21: model_data.extend(struct.pack('<I', 1))
AppendVersion(i) ==
    /\ frame[i].pc = "version"
    /\ Scheduled(i)
    /\ frame' = [frame EXCEPT ![i] =
           [Extended(@, Raw(PackI(1))) EXCEPT !.pc = "size_field"]]
    /\ UNCHANGED <<rng, fs, others, threads>>

\* a header that records the length written instead of the length declared
MutSizeField(f) == Raw(PackI(Max(f.model_size, 24020)))

\* the header field written at line 55 / 22
SizeField(f) == Raw(PackI(f.model_size))

\* line 55 / 22: model_data.extend(struct.pack('<I', model_size))
AppendSize(i) ==
    /\ frame[i].pc = "size_field"
    /\ Scheduled(i)
    /\ LET f == frame[i]
       IN  frame' = [frame EXCEPT ![i] =
               IF CanPackI(f.model_size)
               THEN [Extended(f, SizeField(f)) EXCEPT
                        !.pc = IF f.script = "production" THEN "input_field" ELSE "seed"]
               ELSE Raise(f, "build")]
    /\ UNCHANGED <<rng, fs, others, threads>>

\* line 58: model_data.extend(struct.pack('<I', input_size))
AppendInputSize(i) ==
    /\ frame[i].pc = "input_field"
    /\ Scheduled(i)
    /\ LET f == frame[i]
       IN  frame' = [frame EXCEPT ![i] =
               IF CanPackI(f.input_size)
               THEN [Extended(f, Raw(PackI(f.input_size))) EXCEPT !.pc = "auc_field"]
               ELSE Raise(f, "build")]
    /\ UNCHANGED <<rng, fs, others, threads>>

\* line 59: model_data.extend(struct.pack('<f', metadata['auc']))
AppendAuc(i) ==
    /\ frame[i].pc = "auc_field"
    /\ Scheduled(i)
    /\ LET f == frame[i]
       IN  frame' = [frame EXCEPT ![i] =
               IF HasKey(f.metadata, "auc") /\ CanPackF(f.metadata.o.auc)
               THEN [Extended(f, Raw(PackF(f.metadata.o.auc))) EXCEPT !.pc = "seed"]
               ELSE Raise(f, "build")]
    /\ UNCHANGED <<rng, fs, others, threads>>

\* a builder that does not seed: the stream goes on from where it is
MutSeedResult(g) == g

\* the generator after line 62 / 25
SeedResult(g) == Seeded(Seed)

\* line 62 / 25: random.seed(42), on the generator of the module `random`
SeedGenerator(i) ==
    /\ frame[i].pc = "seed"
    /\ Scheduled(i)
    /\ rng' = SeedResult(rng)
    /\ LET f == frame[i]
       IN  frame' = [frame EXCEPT ![i] =
               [Called(f, "seed", "", "", Seed) EXCEPT
                   !.pc = IF f.script = "production" THEN "conv" ELSE "params"]]
    /\ UNCHANGED <<fs, others, threads>>

\* a loop `for i in range(n): model_data.extend(struct.pack('<f',
\* random.uniform(lo, hi)))`: n draws, appended in draw order
UniformBlock(i, lo, hi, n, next) ==
    /\ rng' = AfterUniform(rng, n)
    /\ LET f == frame[i]
       IN  frame' = [frame EXCEPT ![i] =
               [Extended(Called(f, "uniform", lo, hi, n), Drawn("f32", lo, hi, n, rng))
                   EXCEPT !.pc = next]]
    /\ UNCHANGED <<fs, others, threads>>

\* lines 65-67: conv_params draws of random.uniform(-0.5, 0.5)
ConvBlock(i) ==
    /\ frame[i].pc = "conv"
    /\ Scheduled(i)
    /\ UniformBlock(i, "-0.5", "0.5", conv_params, "dense")

\* lines 70-72: dense_params draws of random.uniform(-1.0, 1.0)
DenseBlock(i) ==
    /\ frame[i].pc = "dense"
    /\ Scheduled(i)
    /\ UniformBlock(i, "-1.0", "1.0", dense_params, "pad")

\* simple, lines 28-29: 1000 draws of random.uniform(-1.0, 1.0)
SimpleBlock(i) ==
    /\ frame[i].pc = "params"
    /\ Scheduled(i)
    /\ UniformBlock(i, "-1.0", "1.0", SimpleParams, "pad")

\* a padding loop that stops one iteration early
MutPadCount(remaining) == Max(0, remaining - 1)

\* the iterations of `for i in range(remaining)`: none when remaining <= 0
PadCount(remaining) == Max(0, remaining)

\* a padding draw of random.randint(0, 256)
MutPadHi == "256"

\* the upper end of random.randint(0, 255)
PadHi == "255"

\* the frame after n iterations of line 77 / 34, the first in generator state g
Padded(f, n, g) ==
    IF n > 0 THEN Extended(Called(f, "randint", "0", PadHi, n), Drawn("u8", "0", PadHi, n, g))
    ELSE f

\* lines 75-77 / 32-34: remaining = model_size - len(model_data);
\* for i in range(remaining): model_data.append(random.randint(0, 255))
Pad(i) ==
    /\ frame[i].pc = "pad"
    /\ Scheduled(i)
    /\ LET f == frame[i]
           n == PadCount(f.model_size - BufLen(f.model_data))
       IN  /\ rng' = AfterRandint(rng, n)
           /\ frame' = [frame EXCEPT ![i] = [Padded(f, n, rng) EXCEPT !.pc = "return"]]
    /\ UNCHANGED <<fs, others, threads>>

\* line 79 / 36: return model_data to the caller
Return(i) ==
    /\ frame[i].pc = "return"
    /\ Scheduled(i)
    /\ frame' = [frame EXCEPT ![i] =
           [@ EXCEPT !.pc = IF frame[i].caller = "main" THEN "makedirs" ELSE "returned"]]
    /\ UNCHANGED <<rng, fs, others, threads>>

(* ------------------------------- main ---------------------------------- *)
(* production lines 90-103, simple lines 46-59                             *)

\* line 91 / 47: os.makedirs('assets/models/big_mood_detector', exist_ok=True)
MakeDirs(i) ==
    /\ frame[i].pc = "makedirs"
    /\ Scheduled(i)
    /\ \E ok \in BOOLEAN :
         /\ frame' = [frame EXCEPT ![i] =
                IF ok THEN [Logged(@, "makedirs") EXCEPT !.pc = "open_out"]
                ELSE Raise(Logged(@, "makedirs"), "makedirs")]
         /\ fs' = IF ok THEN [fs EXCEPT !.dir = TRUE] ELSE fs
    /\ UNCHANGED <<rng, others, threads>>

\* line 95 / 51: open(output_path, 'wb') creates the file or empties it
OpenOutput(i) ==
    /\ frame[i].pc = "open_out"
    /\ Scheduled(i)
    /\ \E ok \in BOOLEAN :
         /\ frame' = [frame EXCEPT ![i] =
                IF ok THEN [Logged(@, "open_output") EXCEPT !.pc = "write"]
                ELSE Raise(Logged(@, "open_output"), "open_output")]
         /\ fs' = IF ok THEN [fs EXCEPT !.out = [st |-> "empty", data |-> <<>>]] ELSE fs
    /\ UNCHANGED <<rng, others, threads>>

\* line 96 / 52: f.write(model_data); a write that fails leaves the file
\* empty or with a part of the bytes, and the exception leaves main
WriteOutput(i) ==
    /\ frame[i].pc = "write"
    /\ Scheduled(i)
    /\ \E ok \in BOOLEAN, left \in {"empty", "partial"} :
         /\ frame' = [frame EXCEPT ![i] =
                IF ok THEN [Logged(@, "write") EXCEPT !.pc = "report"]
                ELSE Raise(Logged(@, "write"), "write")]
         /\ fs' = IF ok THEN [fs EXCEPT !.out = [st |-> "full", data |-> frame[i].model_data]]
                  ELSE [fs EXCEPT !.out = [st |-> left, data |-> <<>>]]
    /\ UNCHANGED <<rng, others, threads>>

\* lines 98-103 / 54-59 run without an exception: production formats
\* metadata['auc'] and metadata['parameters'] (with ','), simple nothing of the kind
ReportPrints(f) ==
    f.script = "production" =>
        /\ HasKey(f.metadata, "auc")
        /\ HasKey(f.metadata, "parameters")
        /\ CanFormatComma(f.metadata.o.parameters)

\* lines 98-103 / 54-59: the closing report, then main returns
Report(i) ==
    /\ frame[i].pc = "report"
    /\ Scheduled(i)
    /\ LET f == frame[i]
       IN  frame' = [frame EXCEPT ![i] =
               IF ReportPrints(f) THEN [f EXCEPT !.pc = "done"] ELSE Raise(f, "report")]
    /\ UNCHANGED <<rng, fs, others, threads>>

(* ------------------------- specifications ------------------------------ *)

\* a step of the resolver (production only)
ResolverStep(i) ==
    \/ OpenMetadata(i)
    \/ OpenScaler(i)
    \/ PrintInfo(i)
    \/ Fallback(i)

\* a step of the builder
BuilderStep(i) ==
    \/ SetSize(i)
    \/ AppendMagic(i)
    \/ AppendVersion(i)
    \/ AppendSize(i)
    \/ AppendInputSize(i)
    \/ AppendAuc(i)
    \/ SeedGenerator(i)
    \/ ConvBlock(i)
    \/ DenseBlock(i)
    \/ SimpleBlock(i)
    \/ Pad(i)
    \/ Return(i)

\* a step of main after the builder has returned
WriterStep(i) ==
    \/ MakeDirs(i)
    \/ OpenOutput(i)
    \/ WriteOutput(i)
    \/ Report(i)

\* one run of either script: `python3 scripts/create-...-tflite.py`
Next ==
    \/ \E s \in Scripts : StartMain(1, s)
    \/ ResolverStep(1)
    \/ BuilderStep(1)
    \/ WriterStep(1)

Spec == Init /\ [][Next]_vars

(* ----------------- a process that calls the builders ------------------ *)

\* the (metadata, input_size) pairs the calls are made with: the pair of the
\* except branch (lines 39-44) and a pair read from the two records
ResolvedInputs ==
    { <<Obj(DefaultMetadata), DefaultInputSize>>,
      <<Obj([model_type |-> Str("PAT-Conv-M"), auc |-> Num(75, -2),
             parameters |-> Num(7, 0), date_trained |-> Str("d")]), 5>> }

\* code that imported a script calls its create_..._model(); for production
\* the call starts after lines 19-44 have resolved the metadata
Call(i) ==
    /\ frame[i].pc = "idle"
    /\ Scheduled(i)
    /\ \A j \in Frames : j < i => frame[j].pc # "idle"
    /\ \E s \in Scripts, r \in ResolvedInputs :
         frame' = [frame EXCEPT ![i] =
             IF s = "production"
             THEN [@ EXCEPT !.script = s, !.caller = "host", !.pc = "size",
                            !.metadata = r[1], !.input_size = r[2]]
             ELSE [@ EXCEPT !.script = s, !.caller = "host", !.pc = "size"]]
    /\ UNCHANGED <<rng, fs, others, threads>>

\* any other code of the process draws from the generator of `random`
OtherDraw ==
    /\ threads \/ \A j \in Frames : ~Running(frame[j])
    /\ others < MaxOtherDraws
    /\ others' = others + 1
    /\ rng' = AfterUniform(rng, 1)
    /\ UNCHANGED <<fs, frame, threads>>

\* a process that imports the scripts and calls their builders
NextCalls ==
    \/ \E i \in Frames : Call(i) \/ BuilderStep(i)
    \/ OtherDraw

\* single-threaded: one call after the other
SpecCalls == Init /\ [][NextCalls]_vars

\* the calls made from several threads: their steps interleave
SpecThreads == InitThreads /\ [][NextCalls]_vars

(* ------------------------------ claims --------------------------------- *)

\* occurrences of x in a log
Count(log, x) == Cardinality({k \in 1 .. Len(log) : log[k] = x})

\* the builder has returned model_data to its caller
BuilderReturned(f) ==
    \/ f.pc \in {"returned", "makedirs", "open_out", "write", "report", "done"}
    \/ f.pc = "raised" /\ f.err # "build"

\* a frame of the production builder whose build has returned
ProductionBuilt(f) == f.script = "production" /\ BuilderReturned(f)

\* the resolver has returned (production, called from main)
Resolved(f) ==
    /\ f.script = "production"
    /\ f.caller = "main"
    /\ f.pc \notin {"idle", "open_meta", "open_scaler", "print_info", "except"}

\* C1: the container returned has length declared_size when declared_size >=
\* 24020, and length exactly 24020 with no padding chunk and all seven fixed
\* fields in place when declared_size < 24020: length = max(declared_size, 24020).
C1_OutputLength ==
    \A i \in Frames :
        LET f == frame[i]
        IN  ProductionBuilt(f) =>
              /\ BufLen(f.model_data) = (IF f.model_size >= 24020 THEN f.model_size ELSE 24020)
              /\ f.model_size <= 24020 =>
                    /\ Len(f.model_data) = 7
                    /\ \A k \in 1 .. 7 : f.model_data[k].kind # "u8"
                    /\ Len(RawPrefix(f.model_data)) = 20
                    /\ f.model_data[6].n = 1000
                    /\ f.model_data[7].n = 5000

\* a build with a declared size below 24020 has returned its 24020 bytes
C1_Witness ==
    \E i \in Frames :
        /\ ProductionBuilt(frame[i])
        /\ frame[i].model_size = 24019
        /\ BufLen(frame[i].model_data) = 24020

\* C2: two builds of one process, made one after the other with the same
\* builder, metadata values and declared size, whatever was built or drawn
\* before each, return the same bytes.
C2_Deterministic ==
    \A i, j \in Frames :
        LET f == frame[i]
            g == frame[j]
        IN  ( /\ BuilderReturned(f)
              /\ BuilderReturned(g)
              /\ f.script = g.script
              /\ f.model_size = g.model_size
              /\ f.script = "production" =>
                    /\ f.metadata.o.auc = g.metadata.o.auc
                    /\ f.input_size = g.input_size )
            => f.model_data = g.model_data

\* a second build with the inputs of the first has returned, the generator
\* having been drawn from outside the builds as well
C2_Witness ==
    /\ others > 0
    /\ BuilderReturned(frame[1])
    /\ BuilderReturned(frame[2])
    /\ frame[1].script = "production"
    /\ frame[2].script = "production"
    /\ frame[1].model_size = frame[2].model_size
    /\ frame[1].model_size > 24020
    /\ frame[1].metadata = frame[2].metadata
    /\ frame[1].input_size = frame[2].input_size

\* C3: in every container returned, bytes [0:4] are 'TFL3', [4:8] decode to 1,
\* [8:12] decode to the declared size (also when another length was written),
\* [12:16] decode to input_size, [16:20] are auc as a binary32, and the blocks
\* and the padding start at offsets 20, 4020 and 24020.
C3_Layout ==
    \A i \in Frames :
        LET f == frame[i]
            d == f.model_data
        IN  ProductionBuilt(f) =>
              /\ Slice(d, 0, 4) = <<84, 70, 76, 51>>
              /\ DecodeI(Slice(d, 4, 8)) = 1
              /\ DecodeI(Slice(d, 8, 12)) = f.model_size
              /\ DecodeI(Slice(d, 12, 16)) = f.input_size
              /\ Slice(d, 16, 20) = PackF(f.metadata.o.auc)
              /\ f.metadata.o.auc = Num(5929, -4) => Slice(d, 16, 20) = <<75, 200, 23, 63>>
              /\ f.metadata.o.auc = Num(75, -2) => Slice(d, 16, 20) = <<0, 0, 64, 63>>
              /\ d[6].kind = "f32" /\ OffsetOf(d, 6) = 20
              /\ d[7].kind = "f32" /\ OffsetOf(d, 7) = 4020
              /\ Len(d) <= 8
              /\ Len(d) = 8 => d[8].kind = "u8" /\ OffsetOf(d, 8) = 24020

\* a container built from metadata read from the files, its length not the
\* declared one
C3_Witness ==
    \E i \in Frames :
        /\ ProductionBuilt(frame[i])
        /\ ~frame[i].caught
        /\ frame[i].caller = "main"
        /\ frame[i].input_size = 5
        /\ frame[i].model_size = 24019
        /\ BufLen(frame[i].model_data) # frame[i].model_size

\* C4: a failure while the two records are read is caught in the resolver,
\* and the resolved values are then the defaults, all of them; otherwise they
\* are all read from the files.  No exception leaves the resolver.
C4_DefaultsOnFailure ==
    \A i \in Frames :
        LET f == frame[i]
        IN  /\ f.pc = "raised" => f.err \notin {"open_meta", "open_scaler", "print_info", "except"}
            /\ Resolved(f) =>
                  /\ f.caught =>
                        /\ f.metadata =
                              Obj([model_type |-> Str("PAT-Conv-L"), auc |-> Num(5929, -4),
                                   parameters |-> Num(1984289, 0)])
                        /\ f.input_size = 18
                  /\ ~f.caught =>
                        /\ f.metadata \in MetadataJson
                        /\ InfoPrints(f)
                        /\ f.input_size = f.scaler_stats.o.mean.n

\* the metadata record was read, the scaler record failed, and the run went on
\* to its end with the defaults
C4_Witness ==
    \E i \in Frames :
        /\ frame[i].pc = "done"
        /\ frame[i].caught
        /\ frame[i].io[2] = "open_scaler"
        /\ frame[i].scaler_stats = Unbound

\* C5: a run fails only in writing the output (creating the directory, opening
\* the file, writing it): the builder raises for no metadata the resolver
\* returns, and a run whose write succeeded ends in success.
C5_FailsOnlyInWrite ==
    \A i \in Frames :
        LET f == frame[i]
        IN  /\ f.pc = "raised" => f.err \in {"makedirs", "open_output", "write"}
            /\ (f.io # <<>> /\ f.io[Len(f.io)] = "write" /\ f.err # "write")
                   => f.pc \in {"report", "done"}

AtMostOnce(f) ==
    /\ \A op \in {"open_metadata", "open_scaler", "makedirs", "open_output", "write"} :
           Count(f.io, op) <= 1
    /\ (f.metadata = Unbound /\ f.pc # "idle" /\ f.pc # "open_meta")
           => Count(f.io, "open_scaler") = 0
    /\ (Count(f.io, "write") = 1 /\ f.pc \notin {"report", "done"})
           => f.pc = "raised" /\ f.err = "write"

\* C7 as stated: at most once each, and the output file opened and written
\* exactly once in the run (here: in every run whose build returned).
C7_OutputExactlyOnce ==
    \A i \in Frames :
        LET f == frame[i]
        IN  f.caller = "main" =>
              /\ AtMostOnce(f)
              /\ (f.pc \in {"done", "raised"} /\ BuilderReturned(f)) =>
                    /\ Count(f.io, "open_output") = 1
                    /\ Count(f.io, "write") = 1

\* C7 as amended: at most once each; the output file opened and written
\* exactly once in every run that ends in success.
C7_NoRetry ==
    \A i \in Frames :
        LET f == frame[i]
        IN  f.caller = "main" =>
              /\ AtMostOnce(f)
              /\ f.pc = "done" =>
                    /\ Count(f.io, "open_output") = 1
                    /\ Count(f.io, "write") = 1
                    /\ fs.out = [st |-> "full", data |-> f.model_data]

\* a run of the production script whose write failed: every operation was
\* attempted once and the failure ended the run
C7_Witness ==
    \E i \in Frames :
        /\ frame[i].pc = "raised"
        /\ frame[i].err = "write"
        /\ frame[i].io = <<"open_metadata", "open_scaler", "makedirs", "open_output", "write">>

\* what the builder returns for the inputs of frame f when nothing else
\* touches the generator between its seeding and its return
AloneData(f) ==
    LET g0 == Seeded(42)
        header == <<Raw(<<84, 70, 76, 51>>), Raw(PackI(1)), Raw(PackI(f.model_size))>>
    IN  IF f.script = "production"
        THEN LET g1 == AfterUniform(g0, 1000)
                 g2 == AfterUniform(g1, 5000)
                 fixed == header \o <<Raw(PackI(f.input_size)), Raw(PackF(f.metadata.o.auc)),
                                      Drawn("f32", "-0.5", "0.5", 1000, g0),
                                      Drawn("f32", "-1.0", "1.0", 5000, g1)>>
             IN  IF f.model_size > 24020
                 THEN Append(fixed, Drawn("u8", "0", "255", f.model_size - 24020, g2))
                 ELSE fixed
        ELSE LET g1 == AfterUniform(g0, 1000)
                 fixed == Append(header, Drawn("f32", "-1.0", "1.0", 1000, g0))
             IN  IF f.model_size > 4012
                 THEN Append(fixed, Drawn("u8", "0", "255", f.model_size - 4012, g1))
                 ELSE fixed

\* C8: the builds share no mutable state: a build whose steps interleave with
\* those of another build (nothing else drawing from the generator) returns
\* the bytes it returns when run alone.
C8_SameAsAlone ==
    \A i \in Frames :
        (others = 0 /\ BuilderReturned(frame[i]))
            => frame[i].model_data = AloneData(frame[i])

\* the calls a production build makes on the generator, each with the length
\* of model_data when it is made
ExpectedCalls(size) ==
    LET fixed == << [op |-> "seed", lo |-> "", hi |-> "", n |-> 42, len |-> 20],
                    [op |-> "uniform", lo |-> "-0.5", hi |-> "0.5", n |-> 1000, len |-> 20],
                    [op |-> "uniform", lo |-> "-1.0", hi |-> "1.0", n |-> 5000, len |-> 4020] >>
    IN  IF size > 24020
        THEN Append(fixed, [op |-> "randint", lo |-> "0", hi |-> "255",
                            n |-> size - 24020, len |-> 24020])
        ELSE fixed

\* C9: the header fields draw nothing; the generator is seeded with 42 once,
\* with the 20 header bytes written; then come 1000 draws of uniform(-0.5,
\* 0.5), 5000 of uniform(-1.0, 1.0) and max(0, declared_size - 24020) of
\* randint(0, 255), one byte each, all on the stream of that one seeding.
C9_DrawOrder ==
    \A i \in Frames :
        LET f == frame[i]
            d == f.model_data
        IN  f.script = "production" =>
              /\ f.pc \in {"size", "magic", "version", "size_field", "input_field",
                           "auc_field", "seed"}
                    => f.calls = <<>> /\ rng = Unseeded
              /\ f.pc \in {"conv", "dense", "pad"}
                    => f.calls = SubSeq(ExpectedCalls(f.model_size), 1, Len(f.calls))
              /\ BuilderReturned(f) =>
                    /\ f.calls = ExpectedCalls(f.model_size)
                    /\ d[6].seeded /\ d[6].seed = 42 /\ d[6].at = <<>>
                    /\ d[7].seeded /\ d[7].seed = 42
                    /\ d[7].at = <<[op |-> "random", n |-> 1000]>>
                    /\ Len(d) = 8 =>
                          /\ d[8].seeded /\ d[8].seed = 42
                          /\ d[8].at = <<[op |-> "random", n |-> 6000]>>
                          /\ d[8].lo = "0" /\ d[8].hi = "255"
                          /\ ChunkLen(d[8]) = d[8].n

\* a build with padding has returned
C9_Witness ==
    \E i \in Frames :
        /\ ProductionBuilt(frame[i])
        /\ frame[i].model_size = 24021
        /\ Len(frame[i].calls) = 4
        /\ rng.hist = <<[op |-> "random", n |-> 6000], [op |-> "randint", n |-> 1]>>

\* the container of frame f is complete in memory
Complete(f) ==
    /\ BuilderReturned(f)
    /\ Slice(f.model_data, 0, 4) = <<84, 70, 76, 51>>
    /\ BufLen(f.model_data) >= f.model_size
    /\ Len(f.calls) >= 2

\* C10: the file system changes only in a step of a main whose build has
\* returned the complete container: the directory at the makedirs step, the
\* output file at the open and write steps that follow a makedirs that
\* succeeded; a step that ends a run in the resolver or the builder changes
\* nothing.
C10_BuildBeforeWrite ==
    [][ /\ fs' # fs =>
             \E i \in Frames :
                 /\ frame'[i] # frame[i]
                 /\ Complete(frame[i])
                 /\ frame[i].pc \in {"makedirs", "open_out", "write"}
                 /\ fs'.out # fs.out =>
                       /\ frame[i].pc \in {"open_out", "write"}
                       /\ Count(frame[i].io, "makedirs") = 1
                       /\ fs.dir
        /\ \A i \in Frames :
               (frame'[i].pc = "raised" /\ frame'[i].err = "build" /\ frame[i].pc # "raised")
                   => fs' = fs /\ Count(frame'[i].io, "makedirs") = 0
      ]_vars

\* a run that failed in the builder, the earlier output file still in place
C10_Witness ==
    \E i \in Frames :
        /\ frame[i].pc = "raised"
        /\ frame[i].err = "build"
        /\ frame[i].caller = "main"
        /\ fs.out.st = "old"

====
